---- MODULE Spec2Model ----
(***************************************************************************)
(* Model of the two command-line tools of the repository:                  *)
(*   azure_foundry_agent_inference.py  (agent invocation / agent listing)  *)
(*   azure_foundry_inference.py        (chat completion / model listing)   *)
(* One behaviour of the model is one run of one tool.  The remote service  *)
(* is the environment: every remote call and every client construction    *)
(* either returns a value drawn from a bounded set or raises.              *)
(***************************************************************************)
EXTENDS Integers, Sequences, FiniteSets, TLC

VARIABLES
    tool,             \* "agent" or "direct": which script runs
    args,             \* the parsed command line (argparse namespace)
    pc,               \* position of the run in the script
    calls,            \* remote calls issued so far, in order
    thread,           \* object returned by threads.create
    run,              \* object returned by runs.create_and_process
    messages,         \* listing returned by messages.list
    agents_list,      \* listing returned by list_agents
    response,         \* object returned by chat.completions.create
    result,           \* value returned by the wrapper to main
    exc,              \* the exception in flight ("" when none)
    output,           \* lines printed so far
    exit_status       \* -1 while running, then the process exit status

vars == <<tool, args, pc, calls, thread, run, messages, agents_list,
          response, result, exc, output, exit_status>>

----------------------------------------------------------------------------
(* Bounds of the model *)

\* messages in one listing returned by messages.list
MaxMsgs == 2
\* content fragments in one listing, all messages together
MaxFrags == 2
\* agents in one listing returned by list_agents
MaxAgents == 2
\* choices in one chat completion response
MaxChoices == 2

----------------------------------------------------------------------------
(* Values the environment and the command line are drawn from *)

Roles == {"user", "assistant"}
Texts == {"a", "b"}
ThreadIds == {"thread_1", "thread_2"}
AgentArgs ==
    { [list_agents |-> l, agent_id |-> p.agent_id, prompt |-> p.prompt] :
        l \in BOOLEAN,
        p \in { [agent_id |-> "A123", prompt |-> "hi"],
                [agent_id |-> "B456", prompt |-> "Hello, how are you?"] } }
DirectArgs ==
    { [list_models |-> l, model |-> p.model, prompt |-> p.prompt,
       max_tokens |-> mt, temperature |-> t] :
        l \in BOOLEAN,
        p \in { [model |-> "gpt-4", prompt |-> "ping"],
                [model |-> "gpt-3.5-turbo", prompt |-> "Hello, how are you?"] },
        mt \in {-1, 5, 100},
        \* temperature in tenths: 0.0, 0.7 (the default) and 2.5 (out of range)
        t \in {0, 7, 25} }

\* A content fragment of a message: has_text is hasattr(content, 'text'),
\* has_value is hasattr(content.text, 'value').
TextFrag(v) == [has_text |-> TRUE, has_value |-> TRUE, value |-> v]
NoTextFrag == [has_text |-> FALSE, has_value |-> FALSE, value |-> ""]
NoValueFrag == [has_text |-> TRUE, has_value |-> FALSE, value |-> ""]
Fragments == {TextFrag(v) : v \in Texts} \cup {NoTextFrag, NoValueFrag}

\* A listed message: has_role / has_content say whether the attribute exists.
NoRoleMsg == [has_role |-> FALSE, role |-> "", has_content |-> FALSE, content |-> <<>>]
MsgsWith(k) ==
    IF k = 0
    THEN {NoRoleMsg} \cup
         { [has_role |-> TRUE, role |-> r, has_content |-> h, content |-> <<>>] :
             r \in Roles, h \in BOOLEAN }
    ELSE { [has_role |-> TRUE, role |-> r, has_content |-> TRUE, content |-> c] :
             r \in Roles, c \in [1..k -> Fragments] }

\* The listings of exactly n messages holding at most f fragments in all.
RECURSIVE ListingsN(_, _)
ListingsN(n, f) ==
    IF n = 0 THEN {<<>>}
    ELSE UNION { UNION { { <<m>> \o rest : rest \in ListingsN(n - 1, f - k) } :
                         m \in MsgsWith(k) } : k \in 0..f }
Listings == UNION { ListingsN(n, MaxFrags) : n \in 0..MaxMsgs }

\* A listed agent: has_* say whether the attribute exists.
NoIdAgent ==
    [has_id |-> FALSE, id |-> "", has_name |-> FALSE, name |-> "",
     has_description |-> FALSE, description |-> ""]
AgentObjs ==
    {NoIdAgent} \cup
    { [has_id |-> TRUE, id |-> i, has_name |-> n.has, name |-> n.val,
       has_description |-> d.has, description |-> d.val] :
        i \in {"A123", "B456"},
        n \in {[has |-> FALSE, val |-> ""], [has |-> TRUE, val |-> "helper"]},
        d \in {[has |-> FALSE, val |-> ""], [has |-> TRUE, val |-> ""],
               [has |-> TRUE, val |-> "answers questions"]} }
AgentListings == UNION { [1..n -> AgentObjs] : n \in 0..MaxAgents }

\* A choice of a completion response; has_message is whether choice.message
\* exists.
NoMessageChoice == [has_message |-> FALSE, role |-> "", content |-> ""]
ChoiceObjs ==
    {NoMessageChoice} \cup
    { [has_message |-> TRUE, role |-> r, content |-> c] :
        r \in {"assistant", "tool"}, c \in {"", "pong", "fine"} }
Responses ==
    { [id |-> "chatcmpl-1", model |-> "gpt-4", choices |-> cs] :
        cs \in UNION { [1..n -> ChoiceObjs] : n \in 0..MaxChoices } }
NoResponse == [id |-> "", model |-> "", choices |-> <<>>]

NoThread == [id |-> ""]
NoRun == [has_id |-> FALSE, id |-> ""]
Runs == {[has_id |-> TRUE, id |-> "run_1"], [has_id |-> FALSE, id |-> ""]}
NoResult == [kind |-> "none"]

Line(k, v) == [k |-> k, v |-> v]

----------------------------------------------------------------------------
(* Agent tool: response normalization (pure part of                        *)
(* make_agent_inference_request)                                           *)

\* Variant of ExtractTexts: the loop breaks at the first fragment without a
\* text value instead of skipping it.
RECURSIVE ExtractTexts_StopAtNonText(_)
ExtractTexts_StopAtNonText(content) ==
    IF content = <<>> THEN <<>>
    ELSE LET c == Head(content)
         IN  IF c.has_text /\ c.has_value
             THEN <<c.value>> \o ExtractTexts_StopAtNonText(Tail(content))
             ELSE <<>>

\* The inner loop: the text values of the fragments that have one, in order.
RECURSIVE ExtractTexts(_)
ExtractTexts(content) ==
    IF content = <<>> THEN <<>>
    ELSE LET c == Head(content)
         IN  (IF c.has_text /\ c.has_value THEN <<c.value>> ELSE <<>>)
             \o ExtractTexts(Tail(content))

\* message_dict after the body of one iteration of the outer loop
MessageDict(msg) ==
    [role |-> msg.role,
     content |-> IF msg.has_content /\ msg.content # <<>>
                 THEN ExtractTexts(msg.content)
                 ELSE <<>>]

\* Variant of ExtendResponses: the role of the message is not looked at.
ExtendResponses_AnyRole(agent_responses, msg) ==
    LET md == MessageDict(msg)
    IN  IF msg.has_content /\ msg.content # <<>> /\ md.content # <<>>
        THEN agent_responses \o md.content
        ELSE agent_responses

\* agent_responses after the body of one iteration of the outer loop
ExtendResponses(agent_responses, msg) ==
    LET md == MessageDict(msg)
    IN  IF /\ msg.has_content /\ msg.content # <<>>
           /\ md.role = "assistant" /\ md.content # <<>>
        THEN agent_responses \o md.content
        ELSE agent_responses

\* "\n".join(parts)
RECURSIVE JoinLines(_)
JoinLines(parts) ==
    IF parts = <<>> THEN ""
    ELSE IF Len(parts) = 1 THEN parts[1]
    ELSE parts[1] \o "\n" \o JoinLines(Tail(parts))

AgentResponse(agent_responses) ==
    IF agent_responses # <<>> THEN JoinLines(agent_responses) ELSE ""

\* The outer loop over the listing, from message i on.  msg.role is read
\* unguarded: a message without the attribute raises AttributeError and the
\* loop stops there.
RECURSIVE NormalizeLoop(_, _, _, _)
NormalizeLoop(msgs, i, out, agent_responses) ==
    IF i > Len(msgs)
    THEN [ok |-> TRUE, messages |-> out, agent_responses |-> agent_responses]
    ELSE IF ~msgs[i].has_role
    THEN [ok |-> FALSE, messages |-> out, agent_responses |-> agent_responses]
    ELSE NormalizeLoop(msgs, i + 1, Append(out, MessageDict(msgs[i])),
                       ExtendResponses(agent_responses, msgs[i]))

\* The dictionary make_agent_inference_request returns
AgentResult(th, r, msgs) ==
    LET n == NormalizeLoop(msgs, 1, <<>>, <<>>)
    IN  [kind |-> "agent_result",
         thread_id |-> th.id,
         run_id |-> IF r.has_id THEN r.id ELSE "None",
         messages |-> n.messages,
         agent_response |-> AgentResponse(n.agent_responses)]

----------------------------------------------------------------------------
(* Agent tool: the loop of list_agents *)

\* Variant of AgentInfo: name is read without the hasattr guard's default.
AgentInfo_NoDefault(agent) ==
    [id |-> agent.id,
     name |-> agent.name,
     description |-> IF agent.has_description THEN agent.description ELSE ""]

AgentInfo(agent) ==
    [id |-> agent.id,
     name |-> IF agent.has_name THEN agent.name ELSE "Unknown",
     description |-> IF agent.has_description THEN agent.description ELSE ""]

\* agent.id is read unguarded: an agent without it raises AttributeError.
RECURSIVE AgentsLoop(_, _, _)
AgentsLoop(listing, i, agents) ==
    IF i > Len(listing) THEN [ok |-> TRUE, agents |-> agents]
    ELSE IF ~listing[i].has_id THEN [ok |-> FALSE, agents |-> agents]
    ELSE AgentsLoop(listing, i + 1, Append(agents, AgentInfo(listing[i])))

\* What main prints for the agents list_agents returned
RECURSIVE AgentLines(_)
AgentLines(agents) ==
    IF agents = <<>> THEN <<>>
    ELSE LET agent == Head(agents)
         IN  << Line("- ", agent.name \o " (ID: " \o agent.id \o ")") >> \o
             (IF agent.description # ""
              THEN << Line("  Description: ", agent.description) >>
              ELSE <<>>) \o
             AgentLines(Tail(agents))

----------------------------------------------------------------------------
(* Direct tool: pure parts of make_inference_request, list_models, main *)

\* messages of the completion request
RequestMessages(prompt) == << [role |-> "user", content |-> prompt] >>

ChoiceDict(choice) ==
    [message |-> [role |-> choice.role, content |-> choice.content]]

\* choice.message is read unguarded: a choice without it raises.
RECURSIVE ChoicesLoop(_, _, _)
ChoicesLoop(choices, i, out) ==
    IF i > Len(choices) THEN [ok |-> TRUE, choices |-> out]
    ELSE IF ~choices[i].has_message THEN [ok |-> FALSE, choices |-> out]
    ELSE ChoicesLoop(choices, i + 1, Append(out, ChoiceDict(choices[i])))

CompletionResult(resp) ==
    [kind |-> "completion_result",
     id |-> resp.id,
     model |-> resp.model,
     choices |-> ChoicesLoop(resp.choices, 1, <<>>).choices]

\* The placeholder list_models returns
PlaceholderModels ==
    << [name |-> "gpt-4", model |-> "gpt-4"],
       [name |-> "gpt-3.5-turbo", model |-> "gpt-3.5-turbo"] >>

RECURSIVE ModelLines(_)
ModelLines(models) ==
    IF models = <<>> THEN <<>>
    ELSE << Line("- ", Head(models).name \o " (" \o Head(models).model \o ")") >>
         \o ModelLines(Tail(models))

\* The text main prints under "Generated text:", "" when it prints none
GeneratedText(res) ==
    IF Len(res.choices) > 0 THEN res.choices[1].message.content ELSE ""

----------------------------------------------------------------------------
(* Remote calls as they appear on the wire *)

ThreadsCreateCall == [op |-> "threads.create"]
MessagesCreateCall(thread_id, role, content) ==
    [op |-> "messages.create", thread_id |-> thread_id, role |-> role,
     content |-> content]
RunsCall(thread_id, agent_id) ==
    [op |-> "runs.create_and_process", thread_id |-> thread_id,
     agent_id |-> agent_id]
MessagesListCall(thread_id) == [op |-> "messages.list", thread_id |-> thread_id]
ListAgentsCall == [op |-> "list_agents"]
\* Variant of CompletionCall: max_tokens is validated (raised to 1) locally.
CompletionCall_Clamped(model, msgs, max_tokens, temperature) ==
    [op |-> "chat.completions.create", model |-> model, messages |-> msgs,
     max_tokens |-> IF max_tokens < 1 THEN 1 ELSE max_tokens,
     temperature |-> temperature]

CompletionCall(model, msgs, max_tokens, temperature) ==
    [op |-> "chat.completions.create", model |-> model, messages |-> msgs,
     max_tokens |-> max_tokens, temperature |-> temperature]

----------------------------------------------------------------------------
Init ==
    /\ tool \in {"agent", "direct"}
    /\ args \in IF tool = "agent" THEN AgentArgs ELSE DirectArgs
    /\ pc = "main"
    /\ calls = <<>>
    /\ thread = NoThread
    /\ run = NoRun
    /\ messages = <<>>
    /\ agents_list = <<>>
    /\ response = NoResponse
    /\ result = NoResult
    /\ exc = ""
    /\ output = <<>>
    /\ exit_status = -1

----------------------------------------------------------------------------
(* Agent tool *)

\* Variant of AgentMain: the --list-agents branch does not return.
AgentMain_IgnoreFlag ==
    /\ tool = "agent" /\ pc = "main"
    /\ output' = output \o
         (IF args.list_agents
          THEN << Line("Fetching available agents...", "") >> ELSE <<>>) \o
         << Line("Invoking agent: ", args.agent_id),
            Line("Prompt: ", args.prompt),
            Line("-----", "") >>
    /\ pc' = "make_agent_inference_request"
    /\ UNCHANGED <<tool, args, calls, thread, run, messages, agents_list,
                   response, result, exc, exit_status>>

\* main, up to the call of the wrapper
AgentMain ==
    /\ tool = "agent" /\ pc = "main"
    /\ IF args.list_agents
       THEN /\ output' = Append(output, Line("Fetching available agents...", ""))
            /\ pc' = "list_agents"
       ELSE /\ output' = output \o
                 << Line("Invoking agent: ", args.agent_id),
                    Line("Prompt: ", args.prompt),
                    Line("-----", "") >>
            /\ pc' = "make_agent_inference_request"
    /\ UNCHANGED <<tool, args, calls, thread, run, messages, agents_list,
                   response, result, exc, exit_status>>

\* Variant of CreateAgentClient: the except clause prints and does not
\* re-raise, so the wrapper goes on without a client.
CreateAgentClient_Swallow ==
    /\ tool = "agent"
    /\ pc \in {"list_agents", "make_agent_inference_request"}
    /\ \E ok \in BOOLEAN :
         /\ pc' = IF pc = "list_agents" THEN "agents.list_agents"
                                        ELSE "threads.create"
         /\ IF ok
            THEN UNCHANGED <<exc, output>>
            ELSE /\ exc' = "client construction failed"
                 /\ output' = Append(output, Line("Error creating client: ", exc'))
    /\ UNCHANGED <<tool, args, calls, thread, run, messages, agents_list,
                   response, result, exit_status>>

\* create_agent_client, called first thing by both wrappers: it returns the
\* client, or prints and re-raises what the constructors raised.
CreateAgentClient ==
    /\ tool = "agent"
    /\ pc \in {"list_agents", "make_agent_inference_request"}
    /\ \E ok \in BOOLEAN :
         IF ok
         THEN /\ pc' = IF pc = "list_agents" THEN "agents.list_agents"
                                             ELSE "threads.create"
              /\ UNCHANGED <<exc, output>>
         ELSE /\ exc' = "client construction failed"
              /\ output' = Append(output, Line("Error creating client: ", exc'))
              /\ pc' = IF pc = "list_agents" THEN "list_agents.except"
                       ELSE "make_agent_inference_request.except"
    /\ UNCHANGED <<tool, args, calls, thread, run, messages, agents_list,
                   response, result, exit_status>>

Raise(e, handler) ==
    /\ exc' = e
    /\ pc' = handler

ThreadsCreate ==
    /\ pc = "threads.create"
    /\ calls' = Append(calls, ThreadsCreateCall)
    /\ \/ /\ \E id \in ThreadIds : thread' = [id |-> id]
          /\ pc' = "messages.create"
          /\ UNCHANGED exc
       \/ /\ Raise("threads.create failed", "make_agent_inference_request.except")
          /\ UNCHANGED thread
    /\ UNCHANGED <<tool, args, run, messages, agents_list, response, result,
                   output, exit_status>>

\* Variant of MessagesCreate: a failure of the call is ignored.
MessagesCreate_IgnoreFailure ==
    /\ pc = "messages.create"
    /\ calls' = Append(calls,
                  MessagesCreateCall(thread.id, "user",
                                     <<[type |-> "text", text |-> args.prompt]>>))
    /\ pc' = "runs.create_and_process"
    /\ \/ UNCHANGED exc
       \/ exc' = "messages.create failed"
    /\ UNCHANGED <<tool, args, thread, run, messages, agents_list, response,
                   result, output, exit_status>>

MessagesCreate ==
    /\ pc = "messages.create"
    /\ calls' = Append(calls,
                  MessagesCreateCall(thread.id, "user",
                                     <<[type |-> "text", text |-> args.prompt]>>))
    /\ \/ /\ pc' = "runs.create_and_process"
          /\ UNCHANGED exc
       \/ Raise("messages.create failed", "make_agent_inference_request.except")
    /\ UNCHANGED <<tool, args, thread, run, messages, agents_list, response,
                   result, output, exit_status>>

\* Variant of RunsCreateAndProcess: the run is created, then created and
\* processed (two calls).
RunsCreateAndProcess_Repeated ==
    /\ pc = "runs.create_and_process"
    /\ calls' = calls \o << RunsCall(thread.id, args.agent_id),
                            RunsCall(thread.id, args.agent_id) >>
    /\ \/ /\ \E r \in Runs : run' = r
          /\ pc' = "messages.list"
          /\ UNCHANGED exc
       \/ /\ Raise("runs.create_and_process failed",
                   "make_agent_inference_request.except")
          /\ UNCHANGED run
    /\ UNCHANGED <<tool, args, thread, messages, agents_list, response, result,
                   output, exit_status>>

RunsCreateAndProcess ==
    /\ pc = "runs.create_and_process"
    /\ calls' = Append(calls, RunsCall(thread.id, args.agent_id))
    /\ \/ /\ \E r \in Runs : run' = r
          /\ pc' = "messages.list"
          /\ UNCHANGED exc
       \/ /\ Raise("runs.create_and_process failed",
                   "make_agent_inference_request.except")
          /\ UNCHANGED run
    /\ UNCHANGED <<tool, args, thread, messages, agents_list, response, result,
                   output, exit_status>>

MessagesList ==
    /\ pc = "messages.list"
    /\ calls' = Append(calls, MessagesListCall(thread.id))
    /\ \/ /\ \E l \in Listings : messages' = l
          /\ pc' = "normalize"
          /\ UNCHANGED exc
       \/ /\ Raise("messages.list failed", "make_agent_inference_request.except")
          /\ UNCHANGED messages
    /\ UNCHANGED <<tool, args, thread, run, agents_list, response, result,
                   output, exit_status>>

\* Building the result from the listing, up to the return
NormalizeMessages ==
    /\ pc = "normalize"
    /\ IF NormalizeLoop(messages, 1, <<>>, <<>>).ok
       THEN /\ result' = AgentResult(thread, run, messages)
            /\ pc' = "agent.display"
            /\ UNCHANGED exc
       ELSE /\ Raise("object has no attribute 'role'",
                     "make_agent_inference_request.except")
            /\ UNCHANGED result
    /\ UNCHANGED <<tool, args, calls, thread, run, messages, agents_list,
                   response, output, exit_status>>

\* except clause of make_agent_inference_request: print, re-raise to main
AgentInferenceExcept ==
    /\ pc = "make_agent_inference_request.except"
    /\ output' = Append(output, Line("Error: ", exc))
    /\ pc' = "agent.main.except"
    /\ UNCHANGED <<tool, args, calls, thread, run, messages, agents_list,
                   response, result, exc, exit_status>>

\* Variant of AgentDisplay: an empty reply is treated as an error.
AgentDisplay_FailOnEmpty ==
    /\ pc = "agent.display"
    /\ IF result.agent_response # ""
       THEN /\ output' = output \o
                 << Line("Response:", ""), Line("json", ""),
                    Line("Agent Response:", ""), Line("", result.agent_response) >>
            /\ exit_status' = 0
       ELSE /\ output' = Append(output, Line("Error: ", "no reply"))
            /\ exit_status' = 1
    /\ pc' = "exit"
    /\ UNCHANGED <<tool, args, calls, thread, run, messages, agents_list,
                   response, result, exc>>

\* main after the wrapper returned: the JSON dump, then the reply if any
AgentDisplay ==
    /\ pc = "agent.display"
    /\ output' = output \o
         << Line("Response:", ""), Line("json", "") >> \o
         (IF result.agent_response # ""
          THEN << Line("Agent Response:", ""), Line("", result.agent_response) >>
          ELSE <<>>)
    /\ pc' = "exit"
    /\ exit_status' = 0
    /\ UNCHANGED <<tool, args, calls, thread, run, messages, agents_list,
                   response, result, exc>>

\* except clause of main: print, sys.exit(1)
AgentMainExcept ==
    /\ pc = "agent.main.except"
    /\ output' = Append(output, Line("Error: ", exc))
    /\ pc' = "exit"
    /\ exit_status' = 1
    /\ UNCHANGED <<tool, args, calls, thread, run, messages, agents_list,
                   response, result, exc>>

\* client.agents.list_agents()
AgentsListAgents ==
    /\ pc = "agents.list_agents"
    /\ calls' = Append(calls, ListAgentsCall)
    /\ \/ /\ \E l \in AgentListings : agents_list' = l
          /\ pc' = "list_agents.loop"
          /\ UNCHANGED exc
       \/ /\ Raise("list_agents failed", "list_agents.except")
          /\ UNCHANGED agents_list
    /\ UNCHANGED <<tool, args, thread, run, messages, response, result,
                   output, exit_status>>

\* The loop of list_agents, up to the return
ListAgentsLoop ==
    /\ pc = "list_agents.loop"
    /\ LET r == AgentsLoop(agents_list, 1, <<>>)
       IN  IF r.ok
           THEN /\ result' = [kind |-> "agents", agents |-> r.agents]
                /\ pc' = "agent.list_display"
                /\ UNCHANGED exc
           ELSE /\ Raise("object has no attribute 'id'", "list_agents.except")
                /\ UNCHANGED result
    /\ UNCHANGED <<tool, args, calls, thread, run, messages, agents_list,
                   response, output, exit_status>>

\* except clause of list_agents: print, re-raise to main
ListAgentsExcept ==
    /\ pc = "list_agents.except"
    /\ output' = Append(output, Line("Error: ", exc))
    /\ pc' = "agent.main.except"
    /\ UNCHANGED <<tool, args, calls, thread, run, messages, agents_list,
                   response, result, exc, exit_status>>

\* main after list_agents returned: print the listing and return
AgentListDisplay ==
    /\ pc = "agent.list_display"
    /\ output' = output \o << Line("Available agents:", "") >>
                        \o AgentLines(result.agents)
    /\ pc' = "exit"
    /\ exit_status' = 0
    /\ UNCHANGED <<tool, args, calls, thread, run, messages, agents_list,
                   response, result, exc>>

----------------------------------------------------------------------------
(* Direct tool *)

\* main, up to the call of the wrapper
DirectMain ==
    /\ tool = "direct" /\ pc = "main"
    /\ IF args.list_models
       THEN /\ output' = Append(output, Line("Fetching available models...", ""))
            /\ pc' = "list_models"
       ELSE /\ output' = output \o
                 << Line("Making inference request with model: ", args.model),
                    Line("Prompt: ", args.prompt),
                    Line("-----", "") >>
            /\ pc' = "make_inference_request"
    /\ UNCHANGED <<tool, args, calls, thread, run, messages, agents_list,
                   response, result, exc, exit_status>>

\* list_models: construct the client, return the placeholder list
ListModels ==
    /\ pc = "list_models"
    /\ \/ /\ result' = [kind |-> "models", models |-> PlaceholderModels]
          /\ pc' = "direct.list_display"
          /\ UNCHANGED exc
       \/ /\ Raise("client construction failed", "list_models.except")
          /\ UNCHANGED result
    /\ UNCHANGED <<tool, args, calls, thread, run, messages, agents_list,
                   response, output, exit_status>>

\* except clause of list_models: print, re-raise to main
ListModelsExcept ==
    /\ pc = "list_models.except"
    /\ output' = Append(output, Line("Error: ", exc))
    /\ pc' = "direct.main.except"
    /\ UNCHANGED <<tool, args, calls, thread, run, messages, agents_list,
                   response, result, exc, exit_status>>

\* main after list_models returned: print the listing and return
DirectListDisplay ==
    /\ pc = "direct.list_display"
    /\ output' = output \o << Line("Available models:", "") >>
                        \o ModelLines(result.models)
    /\ pc' = "exit"
    /\ exit_status' = 0
    /\ UNCHANGED <<tool, args, calls, thread, run, messages, agents_list,
                   response, result, exc>>

\* make_inference_request: openai.AzureOpenAI(...)
InferenceClient ==
    /\ pc = "make_inference_request"
    /\ \/ /\ pc' = "chat.completions.create"
          /\ UNCHANGED exc
       \/ Raise("client construction failed", "make_inference_request.except")
    /\ UNCHANGED <<tool, args, calls, thread, run, messages, agents_list,
                   response, result, output, exit_status>>

\* make_inference_request: client.chat.completions.create(...)
ChatCompletionsCreate ==
    /\ pc = "chat.completions.create"
    /\ calls' = Append(calls,
                  CompletionCall(args.model, RequestMessages(args.prompt),
                                 args.max_tokens, args.temperature))
    /\ \/ /\ \E r \in Responses : response' = r
          /\ pc' = "direct.normalize"
          /\ UNCHANGED exc
       \/ /\ Raise("chat.completions.create failed",
                   "make_inference_request.except")
          /\ UNCHANGED response
    /\ UNCHANGED <<tool, args, thread, run, messages, agents_list, result,
                   output, exit_status>>

\* make_inference_request: building the result, up to the return
NormalizeCompletion ==
    /\ pc = "direct.normalize"
    /\ IF ChoicesLoop(response.choices, 1, <<>>).ok
       THEN /\ result' = CompletionResult(response)
            /\ pc' = "direct.display"
            /\ UNCHANGED exc
       ELSE /\ Raise("object has no attribute 'message'",
                     "make_inference_request.except")
            /\ UNCHANGED result
    /\ UNCHANGED <<tool, args, calls, thread, run, messages, agents_list,
                   response, output, exit_status>>

\* Variant of DirectInferenceExcept: the error is printed and not re-raised.
DirectInferenceExcept_Swallow ==
    /\ pc = "make_inference_request.except"
    /\ output' = Append(output, Line("Error: ", exc))
    /\ pc' = "exit"
    /\ exit_status' = 0
    /\ UNCHANGED <<tool, args, calls, thread, run, messages, agents_list,
                   response, result, exc>>

\* except clause of make_inference_request: print, re-raise to main
DirectInferenceExcept ==
    /\ pc = "make_inference_request.except"
    /\ output' = Append(output, Line("Error: ", exc))
    /\ pc' = "direct.main.except"
    /\ UNCHANGED <<tool, args, calls, thread, run, messages, agents_list,
                   response, result, exc, exit_status>>

\* main after the wrapper returned: the JSON dump, then the text if any
DirectDisplay ==
    /\ pc = "direct.display"
    /\ output' = output \o
         << Line("Response:", ""), Line("json", "") >> \o
         (IF GeneratedText(result) # ""
          THEN << Line("Generated text:", ""), Line("", GeneratedText(result)) >>
          ELSE <<>>)
    /\ pc' = "exit"
    /\ exit_status' = 0
    /\ UNCHANGED <<tool, args, calls, thread, run, messages, agents_list,
                   response, result, exc>>

\* except clause of main: print, sys.exit(1)
DirectMainExcept ==
    /\ pc = "direct.main.except"
    /\ output' = Append(output, Line("Error: ", exc))
    /\ pc' = "exit"
    /\ exit_status' = 1
    /\ UNCHANGED <<tool, args, calls, thread, run, messages, agents_list,
                   response, result, exc>>

----------------------------------------------------------------------------
Next ==
    \/ AgentMain
    \/ CreateAgentClient
    \/ ThreadsCreate
    \/ MessagesCreate
    \/ RunsCreateAndProcess
    \/ MessagesList
    \/ NormalizeMessages
    \/ AgentInferenceExcept
    \/ AgentDisplay
    \/ AgentMainExcept
    \/ AgentsListAgents
    \/ ListAgentsLoop
    \/ ListAgentsExcept
    \/ AgentListDisplay
    \/ DirectMain
    \/ ListModels
    \/ ListModelsExcept
    \/ DirectListDisplay
    \/ InferenceClient
    \/ ChatCompletionsCreate
    \/ NormalizeCompletion
    \/ DirectInferenceExcept
    \/ DirectDisplay
    \/ DirectMainExcept

Spec == Init /\ [][Next]_vars

----------------------------------------------------------------------------
(* Properties *)

Exited == pc = "exit"
AgentInvocation == tool = "agent" /\ ~args.list_agents
AgentListing == tool = "agent" /\ args.list_agents
DirectInference == tool = "direct" /\ ~args.list_models
DirectListing == tool = "direct" /\ args.list_models
Printed(k) == \E i \in 1..Len(output) : output[i].k = k
IsErrorLine(l) == l.k \in {"Error: ", "Error creating client: "}
CallFailures ==
    {"threads.create failed", "messages.create failed",
     "runs.create_and_process failed", "messages.list failed"}

\* Reference definitions, written from the statements and not from the loops
HasTextValue(c) == c.has_text /\ c.has_value
TextValues(msg) ==
    IF msg.has_content
    THEN LET kept == SelectSeq(msg.content, HasTextValue)
         IN  [i \in 1..Len(kept) |-> kept[i].value]
    ELSE <<>>
IsAssistant(msg) == msg.has_role /\ msg.role = "assistant"
RECURSIVE Flatten(_)
Flatten(seqs) == IF seqs = <<>> THEN <<>> ELSE Head(seqs) \o Flatten(Tail(seqs))
AssistantTexts(msgs) ==
    LET a == SelectSeq(msgs, IsAssistant)
    IN  Flatten([i \in 1..Len(a) |-> TextValues(a[i])])
RECURSIVE NewlineJoin(_, _)
NewlineJoin(parts, n) ==
    IF n = 0 THEN ""
    ELSE IF n = 1 THEN parts[1]
    ELSE NewlineJoin(parts, n - 1) \o "\n" \o parts[n]

\* C1: the agent_response of a returned result is the newline-join, in
\* returned order, of every text fragment of every assistant message of the
\* listing, and the empty string when there is none.
C1_AgentResponseIsAssistantJoin ==
    result.kind = "agent_result" =>
        LET t == AssistantTexts(messages)
        IN  /\ result.agent_response = NewlineJoin(t, Len(t))
            /\ (t = <<>> => result.agent_response = "")

\* C1 witness: two assistant messages with texts "b" then "a" were listed
\* and the reply is "b", newline, "a".
C1_Witness ==
    /\ result.kind = "agent_result"
    /\ Len(messages) = 2
    /\ messages[1].role = "assistant" /\ TextValues(messages[1]) = <<"b">>
    /\ messages[2].role = "assistant" /\ TextValues(messages[2]) = <<"a">>
    /\ result.agent_response = "b\na"

\* The four remote calls of an agent invocation, for thread id t
ExpectedCalls(t) ==
    << [op |-> "threads.create"],
       [op |-> "messages.create", thread_id |-> t, role |-> "user",
        content |-> <<[type |-> "text", text |-> args.prompt]>>],
       [op |-> "runs.create_and_process", thread_id |-> t,
        agent_id |-> args.agent_id],
       [op |-> "messages.list", thread_id |-> t] >>

\* C2: in agent invocation mode the calls issued so far are always a prefix
\* of create thread, create message, create-and-process run, list messages
\* (all on the created thread), and a run that exits 0 has issued all four,
\* once each.
C2_CallOrder ==
    AgentInvocation =>
        /\ Len(calls) <= 4
        /\ \A i \in 1..Len(calls) : calls[i] = ExpectedCalls(thread.id)[i]
        /\ (Exited /\ exit_status = 0 => calls = ExpectedCalls(thread.id))

\* C2 witness: an invocation exited 0 on thread_2 for agent B456.
C2_Witness ==
    /\ AgentInvocation /\ Exited /\ exit_status = 0
    /\ thread.id = "thread_2" /\ args.agent_id = "B456"
    /\ Len(calls) = 4

\* The number of remote calls issued when the step named by e has failed
CallsAtFailure(e) ==
    CASE e = "client construction failed" -> 0
      [] e = "threads.create failed" -> 1
      [] e = "messages.create failed" -> 2
      [] e = "runs.create_and_process failed" -> 3
      [] e = "messages.list failed" -> 4
      [] OTHER -> 4

\* C3: in agent invocation mode, once a step has failed no further remote
\* call is issued (the calls are those up to the failing step), none of them
\* is a cleanup call, no result is printed, and the run ends with status 1.
C3_FailureAborts ==
    AgentInvocation /\ exc # "" =>
        /\ Len(calls) = CallsAtFailure(exc)
        /\ \A i \in 1..Len(calls) :
             calls[i].op \in {"threads.create", "messages.create",
                              "runs.create_and_process", "messages.list"}
        /\ ~Printed("Response:") /\ ~Printed("json") /\ ~Printed("Agent Response:")
        /\ exit_status # 0
        /\ (Exited => exit_status = 1)

\* C3 witness: the run failed after the thread was created; the process has
\* exited and the thread was not deleted.
C3_Witness ==
    /\ AgentInvocation /\ Exited
    /\ exc = "runs.create_and_process failed"
    /\ calls[1].op = "threads.create" /\ thread.id \in ThreadIds

ListingKinds ==
    {"Fetching available agents...", "Available agents:",
     "Fetching available models...", "Available models:",
     "- ", "  Description: "}

\* C4: with --list-models / --list-agents no completion, thread, message or
\* run request is ever issued, the inference path is never entered, and a
\* listing that succeeds prints the listing only and exits 0.
C4_ListingOnly ==
    /\ DirectListing => calls = <<>>
    /\ AgentListing => \A i \in 1..Len(calls) : calls[i].op = "list_agents"
    /\ (DirectListing \/ AgentListing) =>
         /\ pc \in {"main", "list_agents", "agents.list_agents",
                    "list_agents.loop", "list_agents.except",
                    "agent.list_display", "agent.main.except",
                    "list_models", "list_models.except",
                    "direct.list_display", "direct.main.except", "exit"}
         /\ (Exited /\ exc = "" =>
               /\ exit_status = 0
               /\ Len(output) >= 2
               /\ \A i \in 1..Len(output) : output[i].k \in ListingKinds)
    /\ pc \in {"make_agent_inference_request", "threads.create",
               "messages.create", "runs.create_and_process", "messages.list",
               "normalize", "agent.display", "make_inference_request",
               "chat.completions.create", "direct.normalize", "direct.display"}
         => (AgentInvocation \/ DirectInference)

\* C4 witness: --list-agents listed two agents and exited 0.
C4_Witness ==
    /\ AgentListing /\ Exited /\ exit_status = 0
    /\ Len(agents_list) = 2
    /\ calls = << [op |-> "list_agents"] >>

\* C5: the direct tool without --list-models issues at most one completion
\* request, exactly one once the client is constructed, carrying the model,
\* the single user message, max_tokens and temperature as given; a returned
\* result has one choice entry per returned choice, in order, with its role
\* and content.
C5_OneCompletionRequest ==
    DirectInference =>
        /\ Len(calls) <= 1
        /\ \A i \in 1..Len(calls) :
             calls[i] = [op |-> "chat.completions.create",
                         model |-> args.model,
                         messages |-> <<[role |-> "user", content |-> args.prompt]>>,
                         max_tokens |-> args.max_tokens,
                         temperature |-> args.temperature]
        /\ (Exited /\ exc # "client construction failed" => Len(calls) = 1)
        /\ (Exited /\ exc = "client construction failed" => Len(calls) = 0)
        /\ (result.kind = "completion_result" =>
              /\ Len(result.choices) = Len(response.choices)
              /\ \A i \in 1..Len(response.choices) :
                   /\ result.choices[i].message.role = response.choices[i].role
                   /\ result.choices[i].message.content = response.choices[i].content)

\* C5 witness: a request with max_tokens -1 and temperature 2.5 was answered
\* with two different choices and the run exited 0.
C5_Witness ==
    /\ DirectInference /\ Exited /\ exit_status = 0
    /\ args.max_tokens = -1 /\ args.temperature = 25
    /\ Len(result.choices) = 2
    /\ result.choices[1] # result.choices[2]

\* C6: after a client-construction failure, in either tool and either mode,
\* no remote call is issued, and the run ends with status 1 having printed an
\* "Error" line.
C6_ClientFailure ==
    exc = "client construction failed" =>
        /\ calls = <<>>
        /\ exit_status # 0
        /\ (Exited =>
              /\ exit_status = 1
              /\ \E i \in 1..Len(output) : IsErrorLine(output[i]))

\* C6 witness: --list-agents failed to construct its client and exited.
C6_Witness ==
    /\ AgentListing /\ Exited
    /\ exc = "client construction failed"

\* C7: a returned result has one messages entry per listed message, in
\* order, with the message's role and the text values of its fragments in
\* order; fragments without a text value are left out, messages without
\* content get an empty list.
C7_MessagesPreserved ==
    result.kind = "agent_result" =>
        /\ Len(result.messages) = Len(messages)
        /\ \A i \in 1..Len(messages) :
             /\ result.messages[i].role = messages[i].role
             /\ result.messages[i].content = TextValues(messages[i])

\* C7 witness: the first listed message has a fragment without text before a
\* text fragment, the second has no content attribute.
C7_Witness ==
    /\ result.kind = "agent_result"
    /\ Len(messages) = 2
    /\ Len(messages[1].content) = 2
    /\ ~HasTextValue(messages[1].content[1])
    /\ HasTextValue(messages[1].content[2])
    /\ ~messages[2].has_content
    /\ result.messages[1].content = << messages[1].content[2].value >>
    /\ result.messages[2].content = <<>>

\* C8: list_agents returns one entry per listed agent, in order, with name
\* "Unknown" and description "" where the attribute is missing; it raises
\* only for an agent without id, never for a missing name or description.
C8_AgentDefaults ==
    /\ result.kind = "agents" =>
         /\ Len(result.agents) = Len(agents_list)
         /\ \A i \in 1..Len(agents_list) :
              LET a == agents_list[i]
                  r == result.agents[i]
              IN  /\ r.id = a.id
                  /\ (a.has_name => r.name = a.name)
                  /\ (~a.has_name => r.name = "Unknown")
                  /\ (a.has_description => r.description = a.description)
                  /\ (~a.has_description => r.description = "")
    /\ (AgentListing /\ exc = "object has no attribute 'id'") =>
         \E i \in 1..Len(agents_list) : ~agents_list[i].has_id
    /\ (AgentListing /\ pc = "list_agents.except") =>
         exc \in {"client construction failed", "list_agents failed",
                  "object has no attribute 'id'"}

\* C8 witness: one listed agent has no name, another no description.
C8_Witness ==
    /\ result.kind = "agents"
    /\ Len(agents_list) = 2
    /\ ~agents_list[1].has_name /\ agents_list[1].has_description
    /\ agents_list[2].has_name /\ ~agents_list[2].has_description
    /\ result.agents[1].name = "Unknown"
    /\ result.agents[2].description = ""

\* C9: in both tools an error raised in a wrapper goes through the wrapper's
\* except clause and then main's: no result is returned or displayed after
\* it, the error is printed by the wrapper and again by main, and the run
\* ends with status 1; a run without error ends with status 0.
C9_CatchPrintReraise ==
    /\ exc # "" =>
         /\ pc \in {"make_agent_inference_request.except", "list_agents.except",
                    "make_inference_request.except", "list_models.except",
                    "agent.main.except", "direct.main.except", "exit"}
         /\ result = NoResult
         /\ exit_status # 0
         /\ pc \in {"agent.main.except", "direct.main.except"} =>
              output[Len(output)] = Line("Error: ", exc)
         /\ Exited =>
              /\ exit_status = 1
              /\ Len(output) >= 2
              /\ output[Len(output)] = Line("Error: ", exc)
              /\ output[Len(output) - 1] = Line("Error: ", exc)
    /\ (Exited /\ exc = "") => exit_status = 0

\* C9 witness: the completion request failed and the direct tool has exited.
C9_Witness ==
    /\ DirectInference /\ Exited
    /\ exc = "chat.completions.create failed"
    /\ exit_status = 1

====
